---- MODULE Spec2Model ----
(***************************************************************************)
(* Model of src/src/dependants-sync.js: one run of the synchronisation    *)
(* driver (run), the paginated item load (loadAllProjectItems), the       *)
(* ancestor walk (findParentInitiativeIssue) and the per-field update     *)
(* loop, against a remote store (project schema, item pages, parent       *)
(* graph).  Every external call (octokit.graphql) is an await point: it   *)
(* is issued by one action and returns, or raises, in a later one.        *)
(***************************************************************************)
EXTENDS Integers, Sequences, FiniteSets, TLC

\* ------------------------------------------------------ program constants
\* maxDepth of findParentInitiativeIssue
maxDepth == 50

\* ------------------------------------------------------------------ bounds
\* records a deep chain may have beyond maxDepth
Slack == 3
\* tracked items of a small project
MaxItems == 2
MaxRec == maxDepth + Slack

\* ------------------------------------------------------------ plain values
\* JavaScript null / undefined / a falsy id
Null == 0
\* the default of TOP_PARENT_ISSUE_TYPE
DefaultTopType == "Initiative"
\* a parent whose issueType is null
NoIssueType == "<null>"
SingleSelect == "ProjectV2SingleSelectField"
TextField == "ProjectV2Field"
FieldNames == <<"Initiative", "Team">>
FieldNameSet == {FieldNames[k] : k \in 1..Len(FieldNames)}
ProjectId == "PVT_1"
\* the value of parseInt on a string that does not start with a numeral
NaN == -1

\* ------------------------------------------------------- sequence helpers
RECURSIVE SeqFilter(_, _)
\* Array.prototype.filter with membership of the element in a set as test
SeqFilter(s, keep) ==
  IF s = <<>> THEN <<>>
  ELSE IF Head(s) \in keep THEN <<Head(s)>> \o SeqFilter(Tail(s), keep)
       ELSE SeqFilter(Tail(s), keep)

Range(s) == {s[k] : k \in 1..Len(s)}

\* ------------------------------------------------------------ environment
\* new URL(projectUrl).pathname.split("/").filter(Boolean) on the
\* locators of the tests and the README
PathParts(url) ==
  CASE url = "https://github.com/orgs/my-org/projects/1" ->
         <<"orgs", "my-org", "projects", "1">>
    [] url = "https://github.com/my-org/projects/1" ->
         <<"my-org", "projects", "1">>
    [] url = "https://github.com/orgs/my-org" -> <<"orgs", "my-org">>
    [] url = "https://github.com/orgs/my-org/projects" ->
         <<"orgs", "my-org", "projects">>
    [] OTHER -> <<>>

\* pathParts[i - 1], "" standing for undefined
PartAt(parts, i) == IF i <= Len(parts) THEN parts[i] ELSE ""

\* the value of the one-digit numerals
DigitValue ==
  [d \in {"0", "1", "2", "3", "4", "5", "6", "7", "8", "9"} |->
     CASE d = "0" -> 0 [] d = "1" -> 1 [] d = "2" -> 2 [] d = "3" -> 3
       [] d = "4" -> 4 [] d = "5" -> 5 [] d = "6" -> 6 [] d = "7" -> 7
       [] d = "8" -> 8 [] d = "9" -> 9]

\* parseInt(s, 10) on a path segment: its value when it is a numeral, NaN
\* when it is undefined or not a numeral
ParseInt(s) == IF s \in DOMAIN DigitValue THEN DigitValue[s] ELSE NaN

GoodUrl == "https://github.com/orgs/my-org/projects/1"
Urls == {"", GoodUrl, "https://github.com/my-org/projects/1",
         "https://github.com/orgs/my-org",
         "https://github.com/orgs/my-org/projects"}

\* process.env: SYNC_FIELDS is held as its list of trimmed names (<<>> when
\* the variable is unset or empty), TOP_PARENT_ISSUE_TYPE as "" when unset
MkEnv(token, url, syncFields, topType) ==
  [GITHUB_TOKEN |-> token, PROJECT_URL |-> url,
   SYNC_FIELDS |-> syncFields, TOP_PARENT_ISSUE_TYPE |-> topType]

DefaultEnv == MkEnv("t", GoodUrl, FieldNames, "")

\* ------------------------------------------------------------ remote store
MkField(id, name, typename) == [id |-> id, name |-> name, typename |-> typename]

\* a project item as returned by the item query: content is absent
\* (present = FALSE), present without an id (id = Null) or an issue id
MkItem(id, present, rid, fv) ==
  [id |-> id, content |-> [present |-> present, id |-> rid], fieldValues |-> fv]

\* the records of a small parent graph
SmallRecords == {1, 2, 3}

\* option ids of the two fields of a linked item, Null = no value set
Profiles ==
  { [n \in FieldNameSet |-> IF n = "Initiative" THEN Null ELSE 2],
    [n \in FieldNameSet |-> IF n = "Initiative" THEN 1 ELSE 2] }

\* what an item of a small project may be, its id left open
ItemShapes ==
  { [present |-> FALSE, rid |-> Null, fv |-> [n \in FieldNameSet |-> 1]],
    [present |-> TRUE, rid |-> Null, fv |-> [n \in FieldNameSet |-> 1]] }
  \cup { [present |-> TRUE, rid |-> r, fv |-> p] : r \in SmallRecords, p \in Profiles }

ItemLists(n) ==
  { [k \in 1..n |-> MkItem(k, f[k].present, f[k].rid, f[k].fv)] :
      f \in [1..n -> ItemShapes] }

\* the pages of the item query for a page size
RECURSIVE Paginate(_, _)
Paginate(items, size) ==
  IF Len(items) <= size THEN <<items>>
  ELSE <<SubSeq(items, 1, size)>> \o Paginate(SubSeq(items, size + 1, Len(items)), size)

\* a parent graph: records 1..top in a chain, the top record having no
\* parent (back = Null) or a parent lower in the chain (a cycle); records
\* above top, up to n, have no parent
ChainParent(n, top, back) ==
  [r \in 1..n |-> IF r < top THEN r + 1 ELSE IF r = top THEN back ELSE Null]

MkStore(project, pages, parent, type) ==
  [project |-> project, pages |-> pages, parent |-> parent, type |-> type]

DefaultFields ==
  << MkField(1, "Initiative", SingleSelect), MkField(2, "Team", SingleSelect) >>

MkProject(fields) == [exists |-> TRUE, id |-> ProjectId, fields |-> fields]
NoProject == [exists |-> FALSE, id |-> "", fields |-> <<>>]

\* schemas: each of the two names absent, single-select or of another kind,
\* and a third field of another name
SchemaKinds == {"absent", SingleSelect, TextField}
SchemaOf(k) ==
  (IF k[1] = "absent" THEN <<>> ELSE <<MkField(1, "Initiative", k[1])>>)
  \o (IF k[2] = "absent" THEN <<>> ELSE <<MkField(2, "Team", k[2])>>)
  \o <<MkField(3, "Notes", k[3])>>
Schemas ==
  {<<>>} \cup {SchemaOf(k) : k \in [1..3 -> SchemaKinds] \ {kk \in [1..3 -> SchemaKinds] : kk[3] = "absent"}}

\* the scenario Task(1) -> Task(2) -> Initiative(3) with the items of the
\* task and of the initiative, the initiative holding options 1 and 2
ScenarioItems ==
  << MkItem(1, TRUE, 1, [n \in FieldNameSet |-> IF n = "Initiative" THEN 1 ELSE Null]),
     MkItem(2, TRUE, 3, [n \in FieldNameSet |-> IF n = "Initiative" THEN 1 ELSE 2]) >>
ScenarioParent == ChainParent(3, 3, Null)
ScenarioType(label) == [r \in 1..3 |-> IF r = 3 THEN label ELSE "Task"]

\* ----------------------------------------------------------------- worlds
\* configuration and schema variety over the scenario store
SyncFieldLists == {<<>>, <<"Initiative">>, <<"Initiative", "Team">>, <<"Team", "Notes">>}
TopTypes == {"", "Epic"}

ConfigWorlds ==
  { [env |-> MkEnv(tok, url, <<"Initiative">>, ""),
     store |-> MkStore(MkProject(DefaultFields), Paginate(ScenarioItems, 1),
                       ScenarioParent, ScenarioType("Initiative"))] :
      tok \in {"", "t"}, url \in Urls }
  \cup
  { [env |-> MkEnv("t", GoodUrl, sf, tt),
     store |-> MkStore(proj, Paginate(ScenarioItems, size),
                       ScenarioParent, ScenarioType(label))] :
      sf \in SyncFieldLists, tt \in TopTypes,
      proj \in {NoProject} \cup {MkProject(f) : f \in Schemas},
      size \in {1, 100}, label \in {"Initiative", "Epic"} }

\* small projects: every item list over the chain 1 -> 2 -> 3, closed into
\* a cycle or not, under every typing of its records
WideWorlds ==
  { [env |-> DefaultEnv,
     store |-> MkStore(MkProject(DefaultFields), <<its>>,
                       ChainParent(3, 3, back), type)] :
      back \in {Null} \cup SmallRecords,
      type \in [SmallRecords -> {"Initiative", "Task"}],
      its \in UNION {ItemLists(n) : n \in 0..MaxItems} }

\* deep chains 1 -> 2 -> ... -> top, open, closed back to the start or closed
\* on the top record, with tracked items for the bottom record, the second
\* record and the top record; the target type at the second record, at the
\* top record, at both or nowhere
DeepItems(top) ==
  << MkItem(1, TRUE, 1, [n \in FieldNameSet |-> 2]),
     MkItem(2, TRUE, 2, [n \in FieldNameSet |-> IF n = "Initiative" THEN 2 ELSE 1]),
     MkItem(3, TRUE, top, [n \in FieldNameSet |-> IF n = "Initiative" THEN 1 ELSE 2]) >>

DeepWorldsOf(top) ==
  { [env |-> DefaultEnv,
     store |-> MkStore(MkProject(DefaultFields), <<DeepItems(top)>>,
                       ChainParent(top, top, back),
                       [r \in 1..top |-> IF r \in tgt THEN "Initiative" ELSE other])] :
      back \in {Null, 1, top},
      tgt \in {{}, {2}, {top}, {2, top}},
      other \in {"Task", NoIssueType} }

\* the lengths of the deep chains: the shortest ones and those around maxDepth
DeepTops == (1..4) \cup ((maxDepth - 2)..MaxRec)

DeepWorlds == UNION {DeepWorldsOf(top) : top \in DeepTops}

Worlds == ConfigWorlds \cup WideWorlds \cup DeepWorlds

\* worlds for an external actor that changes parent links during a walk: the
\* records 1..MaxRec, of which 1..top form a chain (open or closed back to
\* the start), an item for the bottom record and an item for the record
\* maxDepth + 1 links above it, which has the target type or not
MutItems ==
  << MkItem(1, TRUE, 1, [n \in FieldNameSet |-> 2]),
     MkItem(2, TRUE, maxDepth + 2, [n \in FieldNameSet |-> IF n = "Initiative" THEN 1 ELSE 2]) >>

MutWorlds ==
  { [env |-> DefaultEnv,
     store |-> MkStore(MkProject(DefaultFields), <<MutItems>>,
                       ChainParent(MaxRec, top, back),
                       [r \in 1..MaxRec |-> IF r \in tgt THEN "Initiative" ELSE "Task"])] :
      top \in {3, MaxRec}, back \in {Null, 1}, tgt \in {{}, {maxDepth + 2}} }

\* ------------------------------------------------------------------ state
VARIABLES
  env,            \* process.env
  store,          \* the remote store: schema, item pages, parent graph
  pc,             \* position of run()
  orgLogin,       \* run: orgLogin
  projectNumber,  \* run: projectNumber
  projectData,    \* organization.projectV2 of the schema query
  fieldsToSync,   \* the eligible fields
  items,          \* allItems, the loaded snapshot
  after,          \* pages fetched so far (the cursor of loadAllProjectItems)
  idx,            \* position of the item loop
  currentId,      \* findParentInitiativeIssue: currentId
  visited,        \* findParentInitiativeIssue: visited
  depth,          \* findParentInitiativeIssue: depth
  parentItem,     \* position in items of parentInitiativeProjectItem
  fieldIdx,       \* position of the field loop
  calls,          \* the external calls issued, in order
  inflight,       \* external calls issued and not yet settled
  walks,          \* the resolutions that returned, in order
  failed,         \* the messages given to core.setFailed
  completed,      \* "Update process completed for all project items." logged
  raised,         \* the external calls that raised
  run,            \* 1 for the first run of the action, 2 for a run after it
  before,         \* the remote store as it was when the current run started
  first           \* the update calls and the final store of the run before

vars == << env, store, pc, orgLogin, projectNumber, projectData,
           fieldsToSync, items, after, idx, currentId, visited, depth,
           parentItem, fieldIdx, calls, inflight, walks, failed, completed,
           raised, run, before, first >>

walkVars == << currentId, visited, depth >>

\* one external call; the fields that do not apply are Null or ""
MkCall(op, item, id, projectId, itemId, fieldId, optionId) ==
  [op |-> op, item |-> item, id |-> id, projectId |-> projectId,
   itemId |-> itemId, fieldId |-> fieldId, optionId |-> optionId,
   org |-> "", number |-> Null]

\* projectDetailsVariables = { org: orgLogin, number: projectNumber }
SchemaCall(org, number) ==
  [MkCall("schema", Null, Null, "", Null, Null, Null)
     EXCEPT !.org = org, !.number = number]

\* the item query asked again without the cursor of the page before
ItemsCall_NoCursor(org, number, cursor) ==
  [MkCall("items", Null, Null, "", Null, Null, Null)
     EXCEPT !.org = org, !.number = number]

\* variables = { org, number: projectNumber, after }
ItemsCall(org, number, cursor) ==
  [MkCall("items", Null, cursor, "", Null, Null, Null)
     EXCEPT !.org = org, !.number = number]

\* variables of the parent query: { id: currentId }
ParentCall(item, id) == MkCall("parent", item, id, "", Null, Null, Null)

\* the state of a run that starts in one of the worlds of W
InitWith(W) ==
  /\ \E w \in W : env = w.env /\ store = w.store
  /\ pc = "Start"
  /\ orgLogin = ""
  /\ projectNumber = Null
  /\ projectData = NoProject
  /\ fieldsToSync = <<>>
  /\ items = <<>>
  /\ after = Null
  /\ idx = 1
  /\ currentId = Null
  /\ visited = {}
  /\ depth = 0
  /\ parentItem = Null
  /\ fieldIdx = 1
  /\ calls = <<>>
  /\ inflight = 0
  /\ walks = <<>>
  /\ failed = <<>>
  /\ completed = FALSE
  /\ raised = 0
  /\ run = 1
  /\ before = store
  /\ first = [updates |-> {}, store |-> store]

Init == InitWith(Worlds)

\* ------------------------------------------------- the code's pure pieces
\* if (!token)
TokenMissing(e) == e.GITHUB_TOKEN = ""

\* if (!projectUrl)
UrlMissing(e) == e.PROJECT_URL = ""

\* the validation without its test of the number of segments
UrlUnsupported_NoLength(parts) == ~(Len(parts) >= 1 /\ parts[1] = "orgs")

\* if (!(pathParts[0] === "orgs" && pathParts.length >= 3))
UrlUnsupported(parts) == ~(Len(parts) >= 1 /\ parts[1] = "orgs" /\ Len(parts) >= 3)

\* the filter without its test of the field's kind
Eligible_AnyKind(field, syncFields) == field.name \in Range(syncFields)

\* the test of projectData.fields.nodes.filter(...)
Eligible(field, syncFields) ==
  field.name \in Range(syncFields) /\ field.typename = SingleSelect

\* the selection keeping every field of the schema
SelectFields_All(fields, syncFields) == fields

SelectFields(fields, syncFields) ==
  SeqFilter(fields, {f \in Range(fields) : Eligible(f, syncFields)})

\* the check of the selection left out
NoFieldsToSync_Never(fields) == FALSE

\* if (fieldsToSync.length === 0) throw
NoFieldsToSync(fields) == Len(fields) = 0

\* the early return for an empty project left out
NoItems_Never(its) == FALSE

\* if (projectItems.length === 0) { core.info(...); return; }
NoItems(its) == Len(its) = 0

\* the item loop without its second skip
IsSkipped_ContentOnly(item) == ~item.content.present

\* the two skips at the head of the item loop
IsSkipped(item) == ~item.content.present \/ item.content.id = Null

\* the target label fixed to its default, whatever the environment says
TopParentIssueType_Default(e) == DefaultTopType

\* process.env.TOP_PARENT_ISSUE_TYPE || "Initiative"
TopParentIssueType(e) ==
  IF e.TOP_PARENT_ISSUE_TYPE = "" THEN DefaultTopType ELSE e.TOP_PARENT_ISSUE_TYPE

\* the walk without its visited set
CycleGuard_Off(v, id) == FALSE

\* if (visited.has(currentId))
CycleGuard(v, id) == id \in v

\* the walk without its depth guard
DepthGuard_Off(d) == FALSE

\* the depth guard one step early
DepthGuard_Early(d) == d >= maxDepth

\* the depth guard one step late
DepthGuard_Late(d) == d > maxDepth + 1

\* if (depth > maxDepth)
DepthGuard(d) == d > maxDepth

\* the store's answer to the parent query: the parent's id, Null when the
\* node is unknown or has no parent
ParentOf(st, id) == IF id \in DOMAIN st.parent THEN st.parent[id] ELSE Null

\* the walk without its test for a missing parent
NoParent_Never(parent) == FALSE

\* if (!issue || !issue.parent)
NoParent(parent) == parent = Null

\* issue.parent.issueType of the answer, NoIssueType when it is null
TypeOf(st, id) == IF id \in DOMAIN st.type THEN st.type[id] ELSE NoIssueType

\* the walk taking the first parent whatever its type
TypeMatches_Any(ptype, top) == TRUE

\* the walk taking a parent without issue type for a match
TypeMatches_NullMatches(ptype, top) == ptype = NoIssueType \/ ptype = top

\* the try block around parentType.name === topParentIssueType: a null
\* issueType throws inside it and the parent does not match
TypeMatches(ptype, top) == ptype # NoIssueType /\ ptype = top

\* the lookup taking the first item that has content
FindItemByContent_AnyContent(its, rid) ==
  LET hits == {k \in 1..Len(its) : its[k].content.present}
  IN IF hits = {} THEN Null ELSE CHOOSE k \in hits : \A j \in hits : k <= j

\* projectData.items.nodes.find(item => item.content && item.content.id === id),
\* as a position, Null when there is none
FindItemByContent(its, rid) ==
  LET hits == {k \in 1..Len(its) : its[k].content.present /\ its[k].content.id = rid}
  IN IF hits = {} THEN Null ELSE CHOOSE k \in hits : \A j \in hits : k <= j

\* the lookup with the field name fixed to "Initiative"
getFieldOptionIdFromItem_Initiative(projectItem, fieldName) ==
  projectItem.fieldValues["Initiative"]

getFieldOptionIdFromItem(projectItem, fieldName) ==
  IF fieldName \in DOMAIN projectItem.fieldValues
  THEN projectItem.fieldValues[fieldName]
  ELSE Null

\* a skip that leaves the item loop (break) instead of going on
NextItem_Break(i, n) == n + 1

\* continue in the item loop: the position after the skipped item i of n
NextItem(i, n) == i + 1

\* the ancestor's item read again from the store instead of the loaded list
LoadedItem_Live(its, st, k) ==
  CHOOSE it \in UNION {{st.pages[p][j] : j \in 1..Len(st.pages[p])} : p \in DOMAIN st.pages} :
    it.id = its[k].id

\* parentInitiativeProjectItem: an element of the loaded list projectItems
LoadedItem(its, st, k) == its[k]

\* the field loop writing whatever the ancestor item holds
NoValue_Never(v) == FALSE

\* if (!parentFieldValue)
NoValue(v) == v = Null

\* the field loop leaving at the first field without a value (break)
NextField_Break(i, n) == n + 1

\* continue: the position of the field loop after field i of n
NextField(i, n) == i + 1

\* the mutation given the field's id where the option's id belongs
UpdateCall_FieldAsOption(item, projectId, itemId, fieldId, optionId) ==
  MkCall("update", item, Null, projectId, itemId, fieldId, fieldId)

\* the variables of updateProjectField
UpdateCall(item, projectId, itemId, fieldId, optionId) ==
  MkCall("update", item, Null, projectId, itemId, fieldId, optionId)

\* a store that takes the selection of the option an item already holds
\* for a deselection
SetOption_Toggle(st, itemId, fieldId, optionId) ==
  LET named == {f \in Range(st.project.fields) : f.id = fieldId}
      name == (CHOOSE f \in named : TRUE).name
  IN IF named = {} \/ name \notin FieldNameSet THEN st
     ELSE [st EXCEPT !.pages =
             [p \in DOMAIN st.pages |->
               [k \in DOMAIN st.pages[p] |->
                 IF st.pages[p][k].id = itemId
                 THEN [st.pages[p][k] EXCEPT !.fieldValues[name] =
                         IF @ = optionId THEN Null ELSE optionId]
                 ELSE st.pages[p][k]]]]

\* the store after updateProjectV2ItemFieldValue
SetOption(st, itemId, fieldId, optionId) ==
  LET named == {f \in Range(st.project.fields) : f.id = fieldId}
      name == (CHOOSE f \in named : TRUE).name
  IN IF named = {} \/ name \notin FieldNameSet THEN st
     ELSE [st EXCEPT !.pages =
             [p \in DOMAIN st.pages |->
               [k \in DOMAIN st.pages[p] |->
                 IF st.pages[p][k].id = itemId
                 THEN [st.pages[p][k] EXCEPT !.fieldValues[name] = optionId]
                 ELSE st.pages[p][k]]]]

\* one resolution that returned: the item, the start record, the return
\* statement taken, the value returned and the step counter at the return
MkWalk(item, start, reason, ret, d) ==
  [item |-> item, start |-> start, reason |-> reason, ret |-> ret, depth |-> d]

\* ---------------------------------------------------------------- actions
\* octokit.graphql(...) is called
Issue(call) == calls' = Append(calls, call) /\ inflight' = inflight + 1

\* the call left unsettled: run goes on without awaiting its answer
Settle_NotAwaited == inflight' = inflight

\* await: the call in flight has returned or raised
Settle == inflight' = inflight - 1

\* catch (error) { core.setFailed(error.message) }
Fail(msg) == failed' = Append(failed, msg) /\ pc' = "Aborted"

\* run asking for the items before it has asked for the schema
Start_ItemsFirst ==
  /\ pc = "Start"
  /\ IF TokenMissing(env) THEN
       /\ Fail("GITHUB_TOKEN is required")
       /\ UNCHANGED << calls, inflight, orgLogin, projectNumber >>
     ELSE IF UrlMissing(env) THEN
       /\ Fail("PROJECT_URL is required in the environment.")
       /\ UNCHANGED << calls, inflight, orgLogin, projectNumber >>
     ELSE IF UrlUnsupported(PathParts(env.PROJECT_URL)) THEN
       /\ Fail("Cannot parse PROJECT_URL")
       /\ UNCHANGED << calls, inflight, orgLogin, projectNumber >>
     ELSE
       /\ orgLogin' = PartAt(PathParts(env.PROJECT_URL), 2)
       /\ projectNumber' = ParseInt(PartAt(PathParts(env.PROJECT_URL), 4))
       /\ Issue(ItemsCall(orgLogin', projectNumber', Null))
       /\ pc' = "AwaitItems" /\ UNCHANGED failed
  /\ UNCHANGED << env, run, before, first, raised, store, projectData, fieldsToSync,
                  items, after, idx, walkVars, parentItem, fieldIdx, walks,
                  completed >>

\* run, up to the schema query
Start ==
  /\ pc = "Start"
  /\ IF TokenMissing(env) THEN
       /\ Fail("GITHUB_TOKEN is required")
       /\ UNCHANGED << calls, inflight, orgLogin, projectNumber >>
     ELSE IF UrlMissing(env) THEN
       /\ Fail("PROJECT_URL is required in the environment.")
       /\ UNCHANGED << calls, inflight, orgLogin, projectNumber >>
     ELSE IF UrlUnsupported(PathParts(env.PROJECT_URL)) THEN
       /\ Fail("Cannot parse PROJECT_URL")
       /\ UNCHANGED << calls, inflight, orgLogin, projectNumber >>
     ELSE
       /\ orgLogin' = PartAt(PathParts(env.PROJECT_URL), 2)
       /\ projectNumber' = ParseInt(PartAt(PathParts(env.PROJECT_URL), 4))
       /\ Issue(SchemaCall(orgLogin', projectNumber'))
       /\ pc' = "AwaitSchema" /\ UNCHANGED failed
  /\ UNCHANGED << env, run, before, first, raised, store, projectData, fieldsToSync, items, after, idx,
                  walkVars, parentItem, fieldIdx, walks, completed >>

\* the schema query returns: field selection, then the first item query
SchemaReturn ==
  /\ pc = "AwaitSchema"
  /\ projectData' = store.project
  /\ IF ~store.project.exists THEN
       /\ Settle /\ Fail("Unable to retrieve project details from the given URL.")
       /\ UNCHANGED << fieldsToSync, calls >>
     ELSE
       /\ fieldsToSync' = SelectFields(store.project.fields, env.SYNC_FIELDS)
       /\ IF NoFieldsToSync(fieldsToSync') THEN
            /\ Settle
            /\ Fail("Could not find any valid single select fields to sync in the project.")
            /\ UNCHANGED calls
          ELSE
            /\ calls' = Append(calls, ItemsCall(orgLogin, projectNumber, Null))
            /\ inflight' = inflight
            /\ pc' = "AwaitItems"
            /\ UNCHANGED failed
  /\ UNCHANGED << env, run, before, first, orgLogin, projectNumber, raised,
                  store, items, after, idx, walkVars, parentItem,
                  fieldIdx, walks, completed >>

\* loadAllProjectItems: one page returns; the next page is asked for, or
\* the list is complete
ItemsReturn ==
  /\ pc = "AwaitItems"
  /\ items' = items \o store.pages[after + 1]
  /\ after' = after + 1
  /\ IF after + 1 < Len(store.pages) THEN
       /\ calls' = Append(calls, ItemsCall(orgLogin, projectNumber, after + 1))
       /\ inflight' = inflight
       /\ pc' = "AwaitItems"
     ELSE
       /\ Settle
       /\ UNCHANGED calls
       /\ pc' = IF NoItems(items') THEN "Done" ELSE "ItemLoop"
  /\ UNCHANGED << env, run, before, first, orgLogin, projectNumber, raised,
                  store, projectData, fieldsToSync, idx, walkVars,
                  parentItem, fieldIdx, walks, failed, completed >>

\* the item loop staying on an item it skips
ItemLoop_Stay ==
  /\ pc = "ItemLoop"
  /\ IF idx > Len(items) THEN
       /\ completed' = TRUE /\ pc' = "Done"
       /\ UNCHANGED << idx, walkVars >>
     ELSE IF IsSkipped(items[idx]) THEN
       /\ idx' = idx
       /\ UNCHANGED << pc, walkVars, completed >>
     ELSE
       /\ currentId' = items[idx].content.id
       /\ visited' = {}
       /\ depth' = 0
       /\ pc' = "Walk"
       /\ UNCHANGED << idx, completed >>
  /\ UNCHANGED << env, run, before, first, orgLogin, projectNumber, raised,
                  store, projectData, fieldsToSync, items, after,
                  parentItem, fieldIdx, calls, inflight, walks, failed >>

\* the item loop keeping the visited set of the resolution before
ItemLoop_KeepVisited ==
  /\ pc = "ItemLoop"
  /\ IF idx > Len(items) THEN
       /\ completed' = TRUE /\ pc' = "Done"
       /\ UNCHANGED << idx, walkVars >>
     ELSE IF IsSkipped(items[idx]) THEN
       /\ idx' = NextItem(idx, Len(items))
       /\ UNCHANGED << pc, walkVars, completed >>
     ELSE
       /\ currentId' = items[idx].content.id
       /\ visited' = visited
       /\ depth' = 0
       /\ pc' = "Walk"
       /\ UNCHANGED << idx, completed >>
  /\ UNCHANGED << env, run, before, first, orgLogin, projectNumber, raised,
                  store, projectData, fieldsToSync, items, after,
                  parentItem, fieldIdx, calls, inflight, walks, failed >>

\* the head of the item loop, up to the call of findParentInitiativeIssue
ItemLoop ==
  /\ pc = "ItemLoop"
  /\ IF idx > Len(items) THEN
       /\ completed' = TRUE /\ pc' = "Done"
       /\ UNCHANGED << idx, walkVars >>
     ELSE IF IsSkipped(items[idx]) THEN
       /\ idx' = NextItem(idx, Len(items))
       /\ UNCHANGED << pc, walkVars, completed >>
     ELSE
       /\ currentId' = items[idx].content.id
       /\ visited' = {}
       /\ depth' = 0
       /\ pc' = "Walk"
       /\ UNCHANGED << idx, completed >>
  /\ UNCHANGED << env, run, before, first, orgLogin, projectNumber, raised,
                  store, projectData, fieldsToSync, items, after,
                  parentItem, fieldIdx, calls, inflight, walks, failed >>

\* the head of the walk loop: the two guards, then the parent query
WalkGuard ==
  /\ pc = "Walk"
  /\ IF CycleGuard(visited, currentId) THEN
       /\ walks' = Append(walks, MkWalk(idx, items[idx].content.id, "cycle", Null, depth))
       /\ idx' = NextItem(idx, Len(items)) /\ pc' = "ItemLoop"
       /\ UNCHANGED << walkVars, calls, inflight >>
     ELSE IF DepthGuard(depth) THEN
       /\ walks' = Append(walks, MkWalk(idx, items[idx].content.id, "depth", Null, depth))
       /\ idx' = NextItem(idx, Len(items)) /\ pc' = "ItemLoop"
       /\ UNCHANGED << walkVars, calls, inflight >>
     ELSE
       /\ visited' = visited \cup {currentId}
       /\ depth' = depth + 1
       /\ Issue(ParentCall(idx, currentId))
       /\ pc' = "AwaitParent"
       /\ UNCHANGED << currentId, idx, walks >>
  /\ UNCHANGED << env, run, before, first, orgLogin, projectNumber, raised,
                  store, projectData, fieldsToSync, items, after,
                  parentItem, fieldIdx, failed, completed >>

\* the parent query returns: no parent, a matching parent (then the lookup
\* of its project item), or one more step up
ParentReturn ==
  /\ pc = "AwaitParent"
  /\ Settle
  /\ LET parent == ParentOf(store, currentId)
         start == items[idx].content.id
     IN IF NoParent(parent) THEN
          /\ walks' = Append(walks, MkWalk(idx, start, "noparent", Null, depth))
          /\ idx' = NextItem(idx, Len(items)) /\ pc' = "ItemLoop"
          /\ UNCHANGED << currentId, parentItem, fieldIdx >>
        ELSE IF TypeMatches(TypeOf(store, parent), TopParentIssueType(env)) THEN
          /\ walks' = Append(walks, MkWalk(idx, start, "found", parent, depth))
          /\ parentItem' = FindItemByContent(items, parent)
          /\ IF parentItem' = Null
             THEN /\ idx' = NextItem(idx, Len(items))
                  /\ pc' = "ItemLoop" /\ UNCHANGED fieldIdx
             ELSE fieldIdx' = 1 /\ pc' = "FieldLoop" /\ UNCHANGED idx
          /\ UNCHANGED currentId
        ELSE
          /\ currentId' = parent
          /\ pc' = "Walk"
          /\ UNCHANGED << idx, parentItem, fieldIdx, walks >>
  /\ UNCHANGED << env, run, before, first, orgLogin, projectNumber, raised,
                  store, projectData, fieldsToSync, items, after,
                  visited, depth, calls, failed, completed >>

\* the field loop comparing the ancestor's value with the item's own and
\* leaving out the update when they are equal
FieldLoop_Diff ==
  /\ pc = "FieldLoop"
  /\ IF fieldIdx > Len(fieldsToSync) THEN
       /\ idx' = idx + 1 /\ pc' = "ItemLoop"
       /\ UNCHANGED << fieldIdx, calls, inflight >>
     ELSE
       LET field == fieldsToSync[fieldIdx]
           parentFieldValue ==
             getFieldOptionIdFromItem(LoadedItem(items, store, parentItem), field.name)
           ownValue == getFieldOptionIdFromItem(items[idx], field.name)
       IN IF NoValue(parentFieldValue) \/ parentFieldValue = ownValue THEN
            /\ fieldIdx' = NextField(fieldIdx, Len(fieldsToSync))
            /\ UNCHANGED << idx, pc, calls, inflight >>
          ELSE
            /\ Issue(UpdateCall(idx, projectData.id, items[idx].id, field.id, parentFieldValue))
            /\ pc' = "AwaitUpdate"
            /\ UNCHANGED << idx, fieldIdx >>
  /\ UNCHANGED << env, run, before, first, orgLogin, projectNumber, raised,
                  store, projectData, fieldsToSync, items, after,
                  walkVars, parentItem, walks, failed, completed >>

\* the head of the field loop, up to the call of updateProjectField
FieldLoop ==
  /\ pc = "FieldLoop"
  /\ IF fieldIdx > Len(fieldsToSync) THEN
       /\ idx' = idx + 1 /\ pc' = "ItemLoop"
       /\ UNCHANGED << fieldIdx, calls, inflight >>
     ELSE
       LET field == fieldsToSync[fieldIdx]
           parentFieldValue ==
             getFieldOptionIdFromItem(LoadedItem(items, store, parentItem), field.name)
       IN IF NoValue(parentFieldValue) THEN
            /\ fieldIdx' = NextField(fieldIdx, Len(fieldsToSync))
            /\ UNCHANGED << idx, pc, calls, inflight >>
          ELSE
            /\ Issue(UpdateCall(idx, projectData.id, items[idx].id, field.id, parentFieldValue))
            /\ pc' = "AwaitUpdate"
            /\ UNCHANGED << idx, fieldIdx >>
  /\ UNCHANGED << env, run, before, first, orgLogin, projectNumber, raised,
                  store, projectData, fieldsToSync, items, after,
                  walkVars, parentItem, walks, failed, completed >>

\* the mutation returns
UpdateReturn ==
  /\ pc = "AwaitUpdate"
  /\ Settle
  /\ LET c == calls[Len(calls)]
     IN store' = SetOption(store, c.itemId, c.fieldId, c.optionId)
  /\ fieldIdx' = fieldIdx + 1
  /\ pc' = "FieldLoop"
  /\ UNCHANGED << env, run, before, first, orgLogin, projectNumber, raised,
                  projectData, fieldsToSync, items, after, idx, walkVars,
                  parentItem, calls, walks, failed, completed >>

\* the call that raised asked again instead of the error reaching the catch
Raise_Retry ==
  /\ pc \in {"AwaitSchema", "AwaitItems", "AwaitParent", "AwaitUpdate"}
  /\ raised < 2
  /\ raised' = raised + 1
  /\ calls' = Append(calls, calls[Len(calls)])
  /\ UNCHANGED << env, run, before, first, orgLogin, projectNumber, store, pc, projectData,
                  fieldsToSync, items, after, idx, walkVars, parentItem,
                  fieldIdx, inflight, walks, failed, completed >>

\* the external call in flight raises
Raise ==
  /\ pc \in {"AwaitSchema", "AwaitItems", "AwaitParent", "AwaitUpdate"}
  /\ Settle
  /\ Fail("request failed")
  /\ raised' = raised + 1
  /\ UNCHANGED << env, run, before, first, orgLogin, projectNumber, store,
                  projectData, fieldsToSync, items, after, idx,
                  walkVars, parentItem, fieldIdx, calls, walks, completed >>

Next ==
  \/ Start
  \/ SchemaReturn
  \/ ItemsReturn
  \/ ItemLoop
  \/ WalkGuard
  \/ ParentReturn
  \/ FieldLoop
  \/ UpdateReturn
  \/ Raise

Spec == Init /\ [][Next]_vars

\* the action is run once more, on the store the run before left
Rerun ==
  /\ pc = "Done" /\ run = 1
  /\ run' = 2
  /\ before' = store
  /\ pc' = "Start"
  /\ orgLogin' = ""
  /\ projectNumber' = Null
  /\ projectData' = NoProject
  /\ fieldsToSync' = <<>>
  /\ items' = <<>>
  /\ after' = Null
  /\ idx' = 1
  /\ currentId' = Null
  /\ visited' = {}
  /\ depth' = 0
  /\ parentItem' = Null
  /\ fieldIdx' = 1
  /\ calls' = <<>>
  /\ inflight' = 0
  /\ walks' = <<>>
  /\ failed' = <<>>
  /\ completed' = FALSE
  /\ raised' = 0
  /\ UNCHANGED << env, store, first >>

RerunNext == Next \/ Rerun

\* two runs of the action in a row
RerunSpec == Init /\ [][RerunNext]_vars

\* the items of all pages, in the order of the pages
RECURSIVE AllItems(_)
AllItems(pages) ==
  IF pages = <<>> THEN <<>> ELSE Head(pages) \o AllItems(Tail(pages))

\* the orders in which n items can stand
Orders(n) == {p \in [1..n -> 1..n] : \A i, j \in 1..n : p[i] = p[j] => i = j}

\* what the update calls issued so far ask of the store
UpdateSet ==
  {[itemId |-> calls[i].itemId, fieldId |-> calls[i].fieldId,
    optionId |-> calls[i].optionId] : i \in {j \in 1..Len(calls) : calls[j].op = "update"}}

\* the action is run again on the store as it was before the run, with the
\* same items in another order
Permute ==
  /\ pc = "Done" /\ run = 1
  /\ LET all == AllItems(before.pages)
         n == Len(all)
     IN \E p \in Orders(n) :
          /\ \E i \in 1..n : p[i] # i
          /\ store' = [before EXCEPT !.pages =
                         Paginate([k \in 1..n |-> all[p[k]]], Len(before.pages[1]))]
  /\ before' = store'
  /\ first' = [updates |-> UpdateSet, store |-> store]
  /\ run' = 2
  /\ pc' = "Start"
  /\ orgLogin' = ""
  /\ projectNumber' = Null
  /\ projectData' = NoProject
  /\ fieldsToSync' = <<>>
  /\ items' = <<>>
  /\ after' = Null
  /\ idx' = 1
  /\ currentId' = Null
  /\ visited' = {}
  /\ depth' = 0
  /\ parentItem' = Null
  /\ fieldIdx' = 1
  /\ calls' = <<>>
  /\ inflight' = 0
  /\ walks' = <<>>
  /\ failed' = <<>>
  /\ completed' = FALSE
  /\ raised' = 0
  /\ UNCHANGED env

PermNext == Next \/ Permute

\* two runs of the action on the same store, the items in two orders
PermSpec == Init /\ [][PermNext]_vars

\* an external actor changes the parent link of the record whose parent
\* is being fetched: it removes the link, or points it to the start record
\* of the walk, to the record itself or to the next record
Mutate ==
  /\ pc = "AwaitParent"
  /\ currentId \in DOMAIN store.parent
  /\ \E r \in {Null, items[idx].content.id, currentId, currentId + 1}
              \cap ({Null} \cup DOMAIN store.parent) :
       /\ r # store.parent[currentId]
       /\ store' = [store EXCEPT !.parent[currentId] = r]
  /\ UNCHANGED << env, run, before, first, pc, orgLogin, projectNumber, projectData,
                  fieldsToSync, items, after, idx, walkVars, parentItem,
                  fieldIdx, calls, inflight, walks, failed, completed, raised >>

MutNext == Next \/ Mutate

\* a run against a store whose parent graph changes under it
MutSpec == InitWith(MutWorlds) /\ [][MutNext]_vars

\* the run itself keeps going: a step of the program that can be taken is
\* taken (an external call returns or raises, a synchronous step is run)
FairSpec == Spec /\ WF_vars(Next)
MutFairSpec == MutSpec /\ WF_vars(Next)

TypeOK ==
  /\ pc \in {"Start", "AwaitSchema", "AwaitItems", "ItemLoop", "Walk",
             "AwaitParent", "FieldLoop", "AwaitUpdate", "Done", "Aborted"}
  /\ inflight \in {0, 1}
  /\ depth \in 0..(maxDepth + 1)
  /\ raised \in {0, 1}
  /\ run \in {1, 2}
  /\ projectNumber \in {Null, NaN} \cup {DigitValue[d] : d \in DOMAIN DigitValue}

\* ------------------------------------------------- reading the world
\* the target label of the run
TargetLabel ==
  IF env.TOP_PARENT_ISSUE_TYPE = "" THEN "Initiative" ELSE env.TOP_PARENT_ISSUE_TYPE

ParentIn(st, r) == IF r \in DOMAIN st.parent THEN st.parent[r] ELSE Null
TypeIn(st, r) == IF r \in DOMAIN st.type THEN st.type[r] ELSE NoIssueType

\* the records on the parent chain of r, r included, whether the chain
\* runs into a cycle, and the record at which it does
RECURSIVE Climb(_, _, _)
Climb(st, r, seen) ==
  IF r = Null THEN [cyclic |-> FALSE, seen |-> seen, at |-> Null]
  ELSE IF r \in seen THEN [cyclic |-> TRUE, seen |-> seen, at |-> r]
  ELSE Climb(st, ParentIn(st, r), seen \cup {r})

ChainOf(st, r) == Climb(st, r, {})

\* an item without a linked record
Inert(item) == ~item.content.present \/ item.content.id = Null

CallsOf(op, k) == {i \in 1..Len(calls) : calls[i].op = op /\ calls[i].item = k}
CallsOp(op) == {i \in 1..Len(calls) : calls[i].op = op}

\* a schema field that is named in the configuration and single-select
Configured(f) ==
  /\ \E k \in 1..Len(env.SYNC_FIELDS) : env.SYNC_FIELDS[k] = f.name
  /\ f.typename = "ProjectV2SingleSelectField"

\* ------------------------------------------------------------------ claims

\* C1: for a tracked item without a linked record (content absent, or
\* content without an id) no parent fetch and no update call is issued,
\* wherever the item stands in the list.
C1_InertItemsUntouched ==
  \A k \in 1..Len(items) :
    Inert(items[k]) =>
      /\ CallsOf("parent", k) = {}
      /\ CallsOf("update", k) = {}
      /\ \A i \in CallsOp("update") : calls[i].itemId # items[k].id

\* a completed run that skipped an item without linked record and updated
\* an item that comes after it
C1_Witness ==
  /\ pc = "Done" /\ completed
  /\ \E k \in 1..Len(items) : Inert(items[k]) /\ \E j \in (k + 1)..Len(items) :
       CallsOf("update", j) # {}

\* C2: no update call is issued for a schema field that is not named in the
\* configured list or is not single-select, whatever the ancestor item
\* holds under that name.
C2_OnlyConfiguredSingleSelect ==
  \A i \in CallsOp("update") :
    \E f \in Range(store.project.fields) : f.id = calls[i].fieldId /\ Configured(f)

\* a completed run with an update, whose schema has a field of another kind
\* that is named in the configuration and for which the ancestor item holds
\* a value
C2_Witness ==
  /\ pc = "Done" /\ completed
  /\ \E i \in CallsOp("update") :
       \E f \in Range(store.project.fields) :
         /\ f.typename # "ProjectV2SingleSelectField"
         /\ \E k \in 1..Len(env.SYNC_FIELDS) : env.SYNC_FIELDS[k] = f.name
         /\ f.name \in DOMAIN items[parentItem].fieldValues
         /\ items[parentItem].fieldValues[f.name] # Null

\* C3: on an acyclic parent chain with at most 50 links above the start
\* record the resolution ends by returning a record of the target type or
\* by reaching a record without parent, never by the depth guard or the
\* cycle guard, and its step counter stays within the length of the chain.
C3_ShallowChainResolves ==
  /\ \A w \in Range(walks) :
       LET c == ChainOf(store, w.start)
       IN (~c.cyclic /\ Cardinality(c.seen) - 1 <= 50) =>
            /\ w.reason \in {"found", "noparent"}
            /\ w.reason = "found" => TypeIn(store, w.ret) = TargetLabel
            /\ w.reason = "noparent" => w.ret = Null
            /\ w.depth <= Cardinality(c.seen)
  /\ pc \in {"Walk", "AwaitParent"} =>
       LET c == ChainOf(store, items[idx].content.id)
       IN (~c.cyclic /\ Cardinality(c.seen) - 1 <= 50) => depth <= Cardinality(c.seen)

\* a resolution that climbed exactly 50 links and ended at the record
\* without parent
C3_Witness ==
  \E w \in Range(walks) :
    LET c == ChainOf(store, w.start)
    IN ~c.cyclic /\ Cardinality(c.seen) - 1 = 50 /\ w.reason = "noparent" /\ w.depth = 51

\* the value of the loaded item under a field name
LoadedValue(item, name) ==
  IF name \in DOMAIN item.fieldValues THEN item.fieldValues[name] ELSE Null

\* the first loaded item linked to a record, Null when there is none
ItemOfRecord(r) ==
  LET hits == {k \in 1..Len(items) : items[k].content.present /\ items[k].content.id = r}
  IN IF hits = {} THEN Null ELSE CHOOSE k \in hits : \A j \in hits : k <= j

\* a record that the walk reaches as a parent has the target type
MatchAbove(c) == \E r \in c.seen : TypeIn(store, ParentIn(store, r)) = TargetLabel

\* C4 as stated: whenever the walk enters a cycle within 50 steps (it
\* fetches a record that lies on a cycle, and the chain holds at most 50
\* records), the resolution returns NotFound with the step counter at most 50.
C4_Original ==
  \A w \in Range(walks) :
    LET c == ChainOf(store, w.start)
    IN (/\ c.cyclic /\ Cardinality(c.seen) <= 50
        /\ \E i \in CallsOf("parent", w.item) : calls[i].id = c.at) =>
         w.ret = Null /\ w.depth <= 50

\* C4, amended: when the chain from the start record runs into a cycle, holds
\* at most 50 records, and no record reached as a parent has the target
\* type, the resolution returns NotFound by the cycle guard, with the step
\* counter equal to the number of records of the chain and so at most 50.
C4_CycleEndsWalk ==
  /\ \A w \in Range(walks) :
       LET c == ChainOf(store, w.start)
       IN (c.cyclic /\ Cardinality(c.seen) <= 50 /\ ~MatchAbove(c)) =>
            /\ w.reason = "cycle" /\ w.ret = Null
            /\ w.depth = Cardinality(c.seen) /\ w.depth <= 50
  /\ pc \in {"Walk", "AwaitParent"} =>
       LET c == ChainOf(store, items[idx].content.id)
       IN (c.cyclic /\ Cardinality(c.seen) <= 50) => depth <= 50

\* a cycle of exactly 50 records, walked round once and detected
C4_Witness ==
  \E w \in Range(walks) :
    LET c == ChainOf(store, w.start)
    IN c.cyclic /\ Cardinality(c.seen) = 50 /\ w.reason = "cycle" /\ w.depth = 50

\* C5: in a run that completes, for every item whose resolved ancestor is
\* tracked and every eligible field for which the ancestor item holds an
\* option X, exactly one update call is issued for the item and the field,
\* carrying the project id, the item's id, the field's id and X, whether or
\* not the item already holds X.
C5_OneUpdatePerFieldWithValue ==
  (pc = "Done" /\ completed) =>
    \A w \in Range(walks) :
      (w.ret # Null /\ ItemOfRecord(w.ret) # Null) =>
        \A f \in Range(store.project.fields) :
          LET x == LoadedValue(items[ItemOfRecord(w.ret)], f.name)
              us == {i \in CallsOp("update") :
                       calls[i].itemId = items[w.item].id /\ calls[i].fieldId = f.id}
          IN (Configured(f) /\ x # Null) =>
               /\ Cardinality(us) = 1
               /\ \A i \in us : /\ calls[i].projectId = store.project.id
                                /\ calls[i].optionId = x
                                /\ calls[i].item = w.item

\* the name of the field an update call is for
FieldNameOf(c) == (CHOOSE f \in Range(store.project.fields) : f.id = c.fieldId).name

\* a completed run with an update that sets the value the item already
\* held and an update that changes the item's value
C5_Witness ==
  /\ pc = "Done" /\ completed
  /\ \E i \in CallsOp("update") :
       LoadedValue(items[calls[i].item], FieldNameOf(calls[i])) = calls[i].optionId
  /\ \E i \in CallsOp("update") :
       LoadedValue(items[calls[i].item], FieldNameOf(calls[i])) # calls[i].optionId

\* no field of the schema is named in the configuration and single-select
NoneConfigured == \A f \in Range(store.project.fields) : ~Configured(f)

LaterItemsResolved(k) ==
  \A j \in (k + 1)..Len(items) : ~Inert(items[j]) => CallsOf("parent", j) # {}

\* C7: when resolution returns an ancestor that is the linked record of no
\* loaded item, no update call is issued for the item, no failure is
\* reported, and the loop goes on with the next item.
C7_UntrackedAncestorSkips ==
  \A n \in 1..Len(walks) :
    LET w == walks[n]
    IN (w.ret # Null /\ ItemOfRecord(w.ret) = Null) =>
         /\ CallsOf("update", w.item) = {}
         /\ idx > w.item
         /\ (n = Len(walks) /\ calls[Len(calls)].item = w.item) =>
              failed = <<>> /\ pc \in {"ItemLoop", "Walk", "Done"}
         /\ (pc = "Done" /\ completed) => LaterItemsResolved(w.item)

\* a completed run in which an item with an untracked ancestor was
\* followed by an item that was resolved
C7_Witness ==
  /\ pc = "Done" /\ completed
  /\ \E w \in Range(walks) :
       /\ w.ret # Null /\ ItemOfRecord(w.ret) = Null
       /\ \E j \in (w.item + 1)..Len(items) : CallsOf("parent", j) # {}

\* C8: for an item whose linked record has no parent exactly one parent
\* fetch is issued (the one that reports no parent), no update call is
\* issued, and the loop goes on with the next item.
C8_NoParentOneFetch ==
  \A k \in 1..Len(items) :
    (~Inert(items[k]) /\ ParentIn(store, items[k].content.id) = Null) =>
      /\ Cardinality(CallsOf("parent", k)) <= 1
      /\ \A i \in CallsOf("parent", k) : calls[i].id = items[k].content.id
      /\ CallsOf("update", k) = {}
      /\ \A w \in Range(walks) :
           w.item = k => w.reason = "noparent" /\ w.ret = Null /\ w.depth = 1 /\ idx > k
      /\ idx > k => Cardinality(CallsOf("parent", k)) = 1
      /\ (pc = "Done" /\ completed) => LaterItemsResolved(k)

\* a completed run in which an item of a record without parent was
\* followed by an item that was resolved
C8_Witness ==
  /\ pc = "Done" /\ completed
  /\ \E k \in 1..Len(items) :
       /\ ~Inert(items[k]) /\ ParentIn(store, items[k].content.id) = Null
       /\ Cardinality(CallsOf("parent", k)) = 1
       /\ \E j \in (k + 1)..Len(items) : CallsOf("parent", j) # {}

\* the first k records above r, Null where the chain has ended
RECURSIVE UpSeq(_, _, _)
UpSeq(st, r, k) ==
  IF k = 0 THEN <<>>
  ELSE <<ParentIn(st, r)>> \o UpSeq(st, ParentIn(st, r), k - 1)

\* C9: an id returned by the resolution is the nearest strict ancestor of
\* the start record that has the target type: it is reached from the start
\* record by parent links and no record passed on the way has the target type.
C9_NearestTypedAncestor ==
  \A w \in Range(walks) :
    w.ret # Null =>
      LET up == UpSeq(store, w.start, w.depth)
      IN /\ w.depth >= 1
         /\ up[w.depth] = w.ret
         /\ TypeIn(store, w.ret) = TargetLabel
         /\ \A j \in 1..(w.depth - 1) : TypeIn(store, up[j]) # TargetLabel

\* a resolution that passed a record of another type and returned a record
\* which has itself a parent of the target type
C9_Witness ==
  \E w \in Range(walks) :
    /\ w.ret # Null /\ w.depth >= 2
    /\ ParentIn(store, w.ret) \notin {Null, w.ret}
    /\ TypeIn(store, ParentIn(store, w.ret)) = TargetLabel

\* the nearest record above r that has the target type, Null when there is none
RECURSIVE NearestFrom(_, _, _)
NearestFrom(st, r, fuel) ==
  LET parent == ParentIn(st, r)
  IN IF fuel = 0 \/ parent = Null THEN Null
     ELSE IF TypeIn(st, parent) = TargetLabel THEN parent
     ELSE NearestFrom(st, parent, fuel - 1)

Nearest(st, r) == NearestFrom(st, r, Cardinality(DOMAIN st.parent) + 1)

\* the records of the target type strictly above r on an acyclic chain that
\* have no record of the target type above them
Topmost(st, r) ==
  LET above == ChainOf(st, r).seen \ {r}
      typed == {a \in above : TypeIn(st, a) = TargetLabel}
  IN {t \in typed : ChainOf(st, t).seen \cap typed = {t}}

OrgScoped(url) ==
  LET parts == PathParts(url) IN Len(parts) >= 3 /\ parts[1] = "orgs"

\* the credential or the locator is missing, or the locator is not one of
\* an organization project
BadConfig ==
  env.GITHUB_TOKEN = "" \/ env.PROJECT_URL = "" \/ ~OrgScoped(env.PROJECT_URL)

\* C11: when the credential is missing, or the locator is missing, or the
\* locator's path does not start with the organization scope with at least
\* three segments, the run reports exactly one failure and issues no
\* external call: before its first step nothing is reported, after it the
\* run is aborted with one failure, and the call log stays empty.
C11_BadConfigFailsWithoutCall ==
  BadConfig =>
    /\ calls = <<>> /\ inflight = 0
    /\ pc \in {"Start", "Aborted"}
    /\ Len(failed) = (IF pc = "Aborted" THEN 1 ELSE 0)
    /\ ~completed

\* a run with a credential and an organization locator of two segments,
\* aborted with one failure and no call
C11_Witness ==
  /\ pc = "Aborted" /\ Len(failed) = 1 /\ calls = <<>>
  /\ env.GITHUB_TOKEN # "" /\ env.PROJECT_URL # ""
  /\ Len(PathParts(env.PROJECT_URL)) = 2
  /\ PathParts(env.PROJECT_URL)[1] = "orgs"

\* the run has ended
Terminal == pc \in {"Done", "Aborted"}

\* C12 as stated: every run that has ended shows exactly one of a single
\* failure report and the trailing confirmation message.
C12_Original ==
  Terminal =>
    \/ Len(failed) = 1 /\ ~completed
    \/ failed = <<>> /\ completed

\* C12: a run that has ended shows exactly one of three outcomes: a single
\* failure report (the run aborted), the trailing confirmation message
\* (the run went through a project with at least one item), or neither of
\* them when the project has no item at all; never a failure together with
\* the confirmation, and nothing of either before the run has ended.
C12_OneOutcome ==
  /\ ~Terminal => failed = <<>> /\ ~completed
  /\ pc = "Aborted" => Len(failed) = 1 /\ ~completed
  /\ pc = "Done" => failed = <<>> /\ (completed <=> Len(items) > 0)

\* a run over a project without items that ended after the schema query
\* and one item query, with no failure and no confirmation
C12_Witness ==
  /\ pc = "Done" /\ ~completed /\ failed = <<>>
  /\ items = <<>> /\ after = Len(store.pages)
  /\ CallsOp("schema") # {} /\ CallsOp("items") # {}

\* C13: when an external call (schema query, item page query, parent
\* fetch or update) raises, the run is aborted: exactly one failure is
\* reported and it carries the message of that error, no call is left in
\* flight, the completion message is not logged, and from then on nothing
\* happens any more: no further call is issued (no retry, no remaining
\* field, no remaining item).
C13_RaiseAborts ==
  /\ [](raised > 0 =>
          /\ raised = 1
          /\ pc = "Aborted"
          /\ failed = <<"request failed">>
          /\ inflight = 0
          /\ ~completed)
  /\ [][pc = "Aborted" => UNCHANGED vars]_vars

\* an update call raised while a field and an item were still to be
\* processed, and the run is aborted
C13_Witness ==
  /\ raised = 1 /\ pc = "Aborted"
  /\ calls[Len(calls)].op = "update"
  /\ fieldIdx < Len(fieldsToSync)
  /\ idx < Len(items)

\* the walk returned an ancestor that is the linked record of a loaded item
HasTrackedAncestor(w) == w.ret # Null /\ ItemOfRecord(w.ret) # Null

\* the update calls issued for item k and a schema field
UpdatesFor(k, f) ==
  {i \in CallsOp("update") : calls[i].item = k /\ calls[i].fieldId = f.id}

\* the configured single-select fields for which the item of the ancestor
\* returned by walk w holds an option, and those for which it holds none
Due(w) ==
  {f \in Range(store.project.fields) :
     Configured(f) /\ LoadedValue(items[ItemOfRecord(w.ret)], f.name) # Null}
NotDue(w) ==
  {f \in Range(store.project.fields) :
     Configured(f) /\ LoadedValue(items[ItemOfRecord(w.ret)], f.name) = Null}

\* the position of a field in the schema
PosOf(fid) ==
  CHOOSE p \in 1..Len(store.project.fields) : store.project.fields[p].id = fid

\* the last call of the run is an update call, and it raised
UpdateRaised ==
  pc = "Aborted" /\ raised = 1 /\ calls # <<>> /\ calls[Len(calls)].op = "update"

\* C14 as stated: when, within one item, a field was skipped or the update
\* call of a field failed, the remaining eligible fields of the item are
\* processed all the same: at the end of the run every eligible field for
\* which the ancestor holds an option has its update call.
C14_Original ==
  Terminal =>
    \A w \in Range(walks) :
      (/\ HasTrackedAncestor(w)
       /\ \/ NotDue(w) # {}
          \/ UpdateRaised /\ calls[Len(calls)].item = w.item) =>
        \A f \in Due(w) : UpdatesFor(w.item, f) # {}

\* C14: within one item a skipped field does not keep the remaining
\* eligible fields from being processed: in a completed run every eligible
\* field for which the ancestor holds an option has its update call, also
\* after a field of the same item was skipped.  A failure of the update call
\* of one field ends the run: no update call is issued for a later field of
\* the item, and none for a later item.
C14_SkipDoesNotBlock ==
  /\ (pc = "Done" /\ completed) =>
       \A w \in Range(walks) :
         (HasTrackedAncestor(w) /\ NotDue(w) # {}) =>
           \A f \in Due(w) : UpdatesFor(w.item, f) # {}
  /\ UpdateRaised =>
       LET c == calls[Len(calls)]
       IN /\ \A i \in 1..Len(calls) : calls[i].item <= c.item
          /\ \A i \in CallsOp("update") :
               calls[i].item = c.item => PosOf(calls[i].fieldId) <= PosOf(c.fieldId)

\* a completed run in which an item had its first eligible field skipped
\* and its second one updated
C14_Witness ==
  /\ pc = "Done" /\ completed
  /\ \E w \in Range(walks) :
       /\ HasTrackedAncestor(w)
       /\ \E f \in NotDue(w), g \in Due(w) :
            PosOf(f.id) < PosOf(g.id) /\ UpdatesFor(w.item, g) # {}

\* the value the store holds for the item with an id, under a field name
StoreValue(id, name) ==
  LET hits == {it \in UNION {Range(store.pages[p]) : p \in DOMAIN store.pages} :
                 it.id = id}
  IN IF hits = {} THEN Null ELSE LoadedValue(CHOOSE it \in hits : TRUE, name)

\* C15: never clear, only set: when the ancestor item holds no option for
\* an eligible field, no update call is issued for the item and that field
\* and the store keeps the value the item had; and no update call at all
\* carries an empty option id.
C15_NeverClear ==
  /\ \A i \in CallsOp("update") : calls[i].optionId # Null
  /\ \A w \in Range(walks) :
       HasTrackedAncestor(w) =>
         \A f \in NotDue(w) :
           /\ \A i \in CallsOp("update") :
                ~(calls[i].itemId = items[w.item].id /\ calls[i].fieldId = f.id)
           /\ StoreValue(items[w.item].id, f.name) = LoadedValue(items[w.item], f.name)

\* a completed run in which an item kept the option it held for a field
\* its ancestor holds no option for, while another field of it was updated
C15_Witness ==
  /\ pc = "Done" /\ completed
  /\ \E w \in Range(walks) :
       /\ HasTrackedAncestor(w)
       /\ \E f \in NotDue(w) :
            /\ LoadedValue(items[w.item], f.name) # Null
            /\ StoreValue(items[w.item].id, f.name) = LoadedValue(items[w.item], f.name)
       /\ \E g \in Due(w) : \E i \in CallsOp("update") :
            calls[i].itemId = items[w.item].id /\ calls[i].fieldId = g.id

\* C16: when the parent fetched has no type label, the walk treats it as
\* not matching and goes on upward from that parent: the step neither ends
\* the resolution (no walk returns) nor aborts the run (no failure is
\* reported), and the item loop stays at the same item.
C16_MissingTypeContinues ==
  [][(/\ pc = "AwaitParent" /\ raised' = raised
      /\ ParentIn(store, currentId) # Null
      /\ TypeIn(store, ParentIn(store, currentId)) = NoIssueType) =>
       /\ pc' = "Walk"
       /\ currentId' = ParentIn(store, currentId)
       /\ walks' = walks
       /\ failed' = failed
       /\ idx' = idx]_vars

\* a resolution that passed a parent without type label and returned a
\* typed ancestor above it
C16_Witness ==
  \E w \in Range(walks) :
    /\ w.reason = "found" /\ w.depth >= 2
    /\ TypeIn(store, ParentIn(store, w.start)) = NoIssueType
    /\ w.ret # ParentIn(store, w.start)
    /\ failed = <<>>

\* C17 as stated: one resolution issues at most 50 parent fetches and
\* never returns an ancestor more than 50 parent links above the start.
C17_Original ==
  /\ \A k \in 1..Len(items) : Cardinality(CallsOf("parent", k)) <= 50
  /\ \A w \in Range(walks) : w.reason = "found" => w.depth <= 50

\* C17: the step counter is tested against 50 before it is incremented, so
\* one resolution issues at most 51 parent fetches, and the ancestor it
\* returns, found by its last fetch, is as many parent links above the
\* start as it issued fetches: never more than 51.
C17_AtMost51Fetches ==
  /\ \A k \in 1..Len(items) : Cardinality(CallsOf("parent", k)) <= 51
  /\ \A w \in Range(walks) :
       /\ w.depth = Cardinality(CallsOf("parent", w.item))
       /\ w.depth <= 51
       /\ w.reason = "depth" => w.depth = 51

\* a resolution that issued 51 parent fetches and returned the ancestor 51
\* parent links above its start, and one that gave up after 51 fetches
C17_Witness ==
  /\ \E w \in Range(walks) :
       /\ w.reason = "found" /\ w.depth = 51 /\ w.ret = w.start + 51
       /\ Cardinality(CallsOf("parent", w.item)) = 51
  /\ \E w \in Range(walks) : w.reason = "depth"

\* C18: the parent that a fetch reports is returned by the resolution
\* exactly when its type name equals the configured top-parent label, or
\* 'Initiative' when no label is configured; so with 'Epic' configured a
\* parent of type 'Epic' is returned and one of type 'Initiative' is passed.
C18_MatchIsConfiguredLabel ==
  [][(/\ pc = "AwaitParent" /\ raised' = raised
      /\ ParentIn(store, currentId) # Null) =>
       LET parent == ParentIn(store, currentId)
           returned == /\ Len(walks') = Len(walks) + 1
                       /\ walks'[Len(walks')].reason = "found"
                       /\ walks'[Len(walks')].ret = parent
       IN /\ returned <=> (TypeIn(store, parent) = TargetLabel)
          /\ ~returned => pc' = "Walk" /\ currentId' = parent /\ walks' = walks]_vars

\* with 'Epic' configured, a resolution that returned a parent of type
\* 'Epic' after passing parents of other types
C18_Witness ==
  /\ env.TOP_PARENT_ISSUE_TYPE = "Epic"
  /\ \E w \in Range(walks) :
       /\ w.reason = "found" /\ TypeIn(store, w.ret) = "Epic"
       /\ w.depth >= 2
       /\ TypeIn(store, ParentIn(store, w.start)) # "Epic"

\* the field selection has been made and the run went on with it
Selected ==
  /\ pc \notin {"Start", "AwaitSchema"}
  /\ CallsOp("items") # {}

\* C19: configured names that are absent from the schema or name a field
\* that is not single-select are left out silently: when at least one
\* configured name is a single-select field of the schema, the run is not
\* aborted by the selection (it aborts only when an external call raises),
\* the fields selected are exactly the schema fields that are both named and
\* single-select, each once, and every update call is for one of them.
C19_ExactlyNamedSingleSelect ==
  /\ (~BadConfig /\ store.project.exists /\ ~NoneConfigured) =>
       /\ pc = "Aborted" => raised = 1
       /\ pc \notin {"Start", "AwaitSchema", "Aborted"} => Selected
  /\ Selected =>
       /\ Range(fieldsToSync) = {f \in Range(store.project.fields) : Configured(f)}
       /\ Cardinality(Range(fieldsToSync)) = Len(fieldsToSync)
  /\ \A i \in CallsOp("update") :
       \E f \in Range(store.project.fields) : Configured(f) /\ f.id = calls[i].fieldId

\* a completed run whose configuration names a field that the schema does
\* not hold as single-select, next to one it does, and that updated an item
C19_Witness ==
  /\ pc = "Done" /\ completed
  /\ \E n \in Range(env.SYNC_FIELDS) :
       \A f \in Range(store.project.fields) : f.name = n => ~Configured(f)
  /\ \E f \in Range(store.project.fields) :
       /\ f.name \notin Range(env.SYNC_FIELDS) \/ f.typename # "ProjectV2SingleSelectField"
  /\ Len(fieldsToSync) = 1
  /\ CallsOp("update") # {}

\* C20: every locator that passes validation yields an organization name
\* and a numeric project number: each schema query and each item query
\* carries the organization segment of the locator and, as project number,
\* an integer that is the value of a segment of the locator.
C20_NumericProjectNumber ==
  \A i \in CallsOp("schema") \cup CallsOp("items") :
    LET parts == PathParts(env.PROJECT_URL)
    IN /\ calls[i].number # NaN
       /\ \E p \in 1..Len(parts) : ParseInt(parts[p]) = calls[i].number
       /\ calls[i].org # "" /\ calls[i].org \in Range(parts)

\* the sum of the step counters of the resolutions that returned
RECURSIVE SumDepth(_)
SumDepth(ws) == IF ws = <<>> THEN 0 ELSE Head(ws).depth + SumDepth(Tail(ws))

\* the parent fetches of an item follow the parent links from the item's
\* record, one fetch per link, and a resolution that returned issued as many
\* fetches as its step counter says
FetchesFollowLinks ==
  /\ \A k \in 1..Len(items) : \A i \in CallsOf("parent", k) :
       calls[i].id = (IF i - 1 \in CallsOf("parent", k)
                      THEN ParentIn(store, calls[i - 1].id)
                      ELSE items[k].content.id)
  /\ \A w \in Range(walks) :
       /\ Cardinality(CallsOf("parent", w.item)) = w.depth
       /\ w.reason = "found" =>
            \E i \in CallsOf("parent", w.item) :
              /\ i + 1 \notin CallsOf("parent", w.item)
              /\ w.ret = ParentIn(store, calls[i].id)

\* a run without update calls that is done issued one schema fetch, one
\* fetch per item page and the fetches of its walks
CallsAddUp ==
  (pc = "Done" /\ CallsOp("update") = {}) =>
    Len(calls) = 1 + Len(store.pages) + SumDepth(walks)

\* C21: each iteration of the walk issues exactly one parent fetch and the
\* matched ancestor itself is never fetched: the fetches of an item follow
\* the parent links from its record, a resolution that returns an ancestor
\* d links above the start issued d fetches, none of them for the ancestor
\* it returns, and a run without updates issues 1 + p + (sum of the walk
\* lengths) calls.
C21_OneFetchPerLink ==
  /\ FetchesFollowLinks
  /\ CallsAddUp
  /\ \A w \in Range(walks) :
       w.reason = "found" =>
         \A i \in CallsOf("parent", w.item) : calls[i].id # w.ret

\* the phase of the driver an external call belongs to: loading the schema,
\* loading the items, processing the items
PhaseOf(op) == CASE op = "schema" -> 1 [] op = "items" -> 2 [] OTHER -> 3

\* the run waits for the answer of an external call
Awaiting == pc \in {"AwaitSchema", "AwaitItems", "AwaitParent", "AwaitUpdate"}

RECURSIVE Concat(_, _)
Concat(pages, n) == IF n = 0 THEN <<>> ELSE Concat(pages, n - 1) \o pages[n]

\* C23: tracked items are processed in load order: the item list is the
\* in-order concatenation of the pages fetched so far, as the store held
\* them when the run started; the k-th item query carries the end cursor
\* of page k - 1 and no page is asked for twice; a call for an item is never
\* followed by a call for an item earlier in the list, and within an item
\* no parent fetch follows an update call.
C23_LoadOrder ==
  /\ items = Concat(before.pages, after)
  /\ \A i \in CallsOp("items") : calls[i].id = i - 2
  /\ Cardinality(CallsOp("items")) <= Len(before.pages)
  /\ \A i \in 1..(Len(calls) - 1) :
       (PhaseOf(calls[i].op) = 3) =>
         /\ calls[i].item <= calls[i + 1].item
         /\ (calls[i].op = "update" /\ calls[i + 1].item = calls[i].item) =>
              calls[i + 1].op = "update"

\* a completed run that loaded two pages and issued calls for an item of
\* the first page and then for an item of the second
C23_Witness ==
  /\ pc = "Done" /\ completed
  /\ Len(before.pages) >= 2 /\ after = Len(before.pages)
  /\ Len(items) = 2
  /\ CallsOf("parent", 1) # {} /\ CallsOf("update", 1) # {}
  /\ CallsOf("parent", 2) # {}

\* C24: at every moment of a run at most one external call is in flight,
\* and it is in flight exactly while the run waits for it; a step that
\* issues a call issues one call, and after it that call is the only one
\* in flight (the call before it has returned).
C24_OneInFlight ==
  /\ [](inflight \in {0, 1} /\ (inflight = 1 <=> Awaiting))
  /\ [][Len(calls') > Len(calls) =>
          Len(calls') = Len(calls) + 1 /\ inflight' = 1]_vars

\* an update call in flight after the schema fetch, the item fetches and
\* the parent fetches before it have returned
C24_Witness ==
  /\ inflight = 1 /\ pc = "AwaitUpdate"
  /\ Len(calls) >= 4
  /\ calls[Len(calls)].op = "update"

\* C25: every skip is non-fatal: once the preconditions have passed, only
\* an external call that raises makes the run fail; an item without linked
\* record, a resolution that returns nothing (root, cycle, depth limit), an
\* ancestor that is not tracked and a field without ancestor value leave
\* the run going, so that a completed run has resolved every linked item and
\* issued the update of every field with an ancestor value; and a run whose
\* calls all succeed reaches Done.
C25_SkipsNonFatal ==
  /\ []((Selected /\ raised = 0) => (failed = <<>> /\ pc # "Aborted"))
  /\ []((pc = "Done" /\ items # <<>>) =>
          /\ completed
          /\ \A j \in 1..Len(items) : ~Inert(items[j]) => CallsOf("parent", j) # {}
          /\ Len(walks) = Cardinality({j \in 1..Len(items) : ~Inert(items[j])})
          /\ \A w \in Range(walks) :
               HasTrackedAncestor(w) => \A f \in Due(w) : UpdatesFor(w.item, f) # {})
  /\ Selected ~> (pc = "Done" \/ raised > 0)

\* a completed run in which a resolution stopped by the depth limit was
\* followed by an item that was updated
C25_Witness ==
  /\ pc = "Done" /\ completed /\ failed = <<>>
  /\ \E w \in Range(walks) :
       /\ w.reason = "depth"
       /\ \E j \in (w.item + 1)..Len(items) : CallsOf("update", j) # {}

\* the value the store held, when the run started, for the item with an id
BeforeValue(id, name) ==
  LET hits == {it \in UNION {Range(before.pages[p]) : p \in DOMAIN before.pages} :
                 it.id = id}
  IN IF hits = {} THEN Null ELSE LoadedValue(CHOOSE it \in hits : TRUE, name)

\* C26: the loaded item list is an immutable snapshot: once loaded it is
\* never changed, and the option id of every update call is the value that
\* the item of the returned ancestor held for the field when the run
\* started, whatever the store holds for that item by now.
C26_Snapshot ==
  /\ [][pc # "AwaitItems" => items' = items]_vars
  /\ [](\A i \in CallsOp("update") : \A w \in Range(walks) :
          w.item = calls[i].item =>
            /\ HasTrackedAncestor(w)
            /\ calls[i].optionId =
                 BeforeValue(items[ItemOfRecord(w.ret)].id, FieldNameOf(calls[i])))

\* an update call that carries the value its ancestor item was loaded
\* with, after an earlier update call of the run has given that ancestor
\* item another value for the same field
C26_Witness ==
  \E i \in CallsOp("update") : \E w \in Range(walks) :
    /\ w.item = calls[i].item /\ HasTrackedAncestor(w)
    /\ LET a == items[ItemOfRecord(w.ret)]
           name == FieldNameOf(calls[i])
       IN /\ \E j \in CallsOp("update") :
               j < i /\ calls[j].itemId = a.id /\ calls[j].fieldId = calls[i].fieldId
          /\ StoreValue(a.id, name) # calls[i].optionId
          /\ LoadedValue(a, name) = calls[i].optionId

\* the record of the ancestor returned by walk w has itself a tracked
\* ancestor of the target type
NestedAncestor(w) ==
  LET above == Nearest(store, w.ret)
  IN above # Null /\ ItemOfRecord(above) # Null

C28_Original ==
  \A i \in CallsOp("update") :
    calls[i].optionId # LoadedValue(items[calls[i].item], FieldNameOf(calls[i]))

\* C28: the update call of a field is issued whatever the item holds: once
\* the field loop of an item has run through, every eligible field for
\* which the ancestor holds a value has its update call, also when the item
\* was loaded with that very value.
C28_UpdateWhateverItemHolds ==
  \A w \in Range(walks) :
    (HasTrackedAncestor(w) /\ (idx > w.item \/ pc = "Done")) =>
      \A f \in Due(w) :
        LoadedValue(items[w.item], f.name) =
            LoadedValue(items[ItemOfRecord(w.ret)], f.name) =>
          \E i \in UpdatesFor(w.item, f) :
            calls[i].optionId = LoadedValue(items[w.item], f.name)

\* an update call in flight that carries the value its item was loaded with
C28_Witness ==
  /\ pc = "AwaitUpdate"
  /\ LET c == calls[Len(calls)]
     IN /\ c.op = "update" /\ c.optionId # Null
        /\ c.optionId = LoadedValue(items[c.item], FieldNameOf(c))

\* C29: when every external call returns or raises, every run ends, in
\* exactly one of two ways: done, with the item loop past the last loaded
\* item and no failure reported, or aborted, with one failure reported and
\* no completion message; this is so for every project and parent graph,
\* graphs with cycles and chains longer than 50 links included.
C29_RunEnds ==
  /\ <>Terminal
  /\ [](pc = "Done" => (idx > Len(items) /\ failed = <<>>))
  /\ [](pc = "Aborted" => (Len(failed) = 1 /\ ~completed))
  /\ [][Terminal => pc' = pc]_vars

\* a run is done on a graph whose chain is longer than 50 links and closed
\* to a cycle: one walk was ended by the depth guard, one by the cycle guard
C29_Witness ==
  /\ pc = "Done"
  /\ Len(store.parent) > maxDepth + 1
  /\ \E w \in Range(walks) : w.reason = "depth"
  /\ \E w \in Range(walks) : w.reason = "cycle"

\* C30: a resolution ends whatever the store answers, also when an external
\* actor changes parent links between two fetches of the walk: a walk that
\* is under way ends (with the item left or the run aborted), no item has
\* more than maxDepth + 1 parent fetches however the graph looks or changes,
\* and a walk ended by the cycle guard or the depth guard returns nothing.
C30_WalkEndsUnderChange ==
  /\ [](pc \in {"Walk", "AwaitParent"} =>
          <>(pc \notin {"Walk", "AwaitParent"}))
  /\ [](/\ depth <= maxDepth + 1
        /\ \A k \in 1..Len(items) :
             Cardinality(CallsOf("parent", k)) <= maxDepth + 1
        /\ \A w \in Range(walks) :
             /\ w.depth <= maxDepth + 1
             /\ w.reason \in {"cycle", "depth"} => w.ret = Null)

\* a walk was ended by the depth guard on a chain that was shorter than
\* the bound when the run started and was made longer during the walk
C30_Witness ==
  \E w \in Range(walks) :
    /\ w.reason = "depth" /\ w.ret = Null /\ w.depth = maxDepth + 1
    /\ before.parent[maxDepth] = Null
    /\ store.parent # before.parent

\* C32: a resolution never returns the record it started from: the
\* ancestor returned for an item differs from the item's own linked record,
\* and no update call of an item carries a value read from that item itself.
C32_NeverOwnRecord ==
  \A w \in Range(walks) :
    w.reason = "found" =>
      /\ w.ret # w.start
      /\ ItemOfRecord(w.ret) # w.item

\* the value the run before left in the store for the item with an id
FirstValue(id, name) ==
  LET hits == {it \in UNION {Range(first.store.pages[p]) : p \in DOMAIN first.store.pages} :
                 it.id = id}
  IN IF hits = {} THEN Null ELSE LoadedValue(CHOOSE it \in hits : TRUE, name)

\* no two loaded items are linked to the same record
OneItemPerRecord ==
  \A j, k \in 1..Len(items) :
    (items[j].content.present /\ items[k].content.present
       /\ items[j].content.id # Null
       /\ items[j].content.id = items[k].content.id) => j = k

\* the run on the items in another order is done: it issued the same update
\* calls, item by item, and left the same values in the store
SameAsFirst ==
  /\ UpdateSet = first.updates
  /\ store.parent = first.store.parent /\ store.type = first.store.type
  /\ store.project = first.store.project
  /\ \A k \in 1..Len(items) : \A name \in FieldNameSet :
       StoreValue(items[k].id, name) = FirstValue(items[k].id, name)

====
